---- MODULE Spec2Model ----
(***************************************************************************)
(* A model of book_generator_gui.py: the PDF assembly engine               *)
(* (generate_pdf, generate_cover_page, generate_interior_page,             *)
(* generate_back_cover_page) and the form handler                          *)
(* BookGeneratorGUI.on_generate that calls it.                             *)
(*                                                                         *)
(* Lengths are whole inches on the input side and points on the canvas     *)
(* side; every product and half-spacing is then an integer, and the        *)
(* arithmetic of the Python floats is exact for these inputs.              *)
(* Strings are sequences of one-character strings.                         *)
(***************************************************************************)
EXTENDS Integers, Sequences, FiniteSets, TLC

\* reportlab.lib.units.inch: points per inch
inch == 72

\* ---- bounds of the model ----
MaxPages == 2
MaxDim == 3
MaxMargin == 1
MaxSpacing == 2
MaxLen == 3

\* A pattern loop of a well-formed page draws at most MaxDim * MaxDim
\* elements after its set-up command; a loop that never ends is cut here.
IterCap == MaxDim * MaxDim + 2

\* ---- strings ----
Alnum == {"a"}
Chars == Alnum \cup {" ", "_", "-"}
Strings(n) == UNION {[1..k -> Chars] : k \in 0..n}

Pdf == <<".", "p", "d", "f">>
Helvetica == <<"Helvetica">>
HelveticaBold == <<"Helvetica-Bold">>
HelveticaOblique == <<"Helvetica-Oblique">>

\* Python None / a value, as a sequence of length 0 / 1
None == <<>>
Some(v) == <<v>>

\* str.isalnum() on one character
isalnum(ch) == ch \in Alnum

\* "".join(c for c in s if c.isalnum() or c in (" ", "_"))
RECURSIVE Filter(_)
Filter(s) ==
    IF s = <<>> THEN <<>>
    ELSE IF isalnum(Head(s)) \/ Head(s) \in {" ", "_"}
         THEN <<Head(s)>> \o Filter(Tail(s))
         ELSE Filter(Tail(s))

\* str.rstrip(): drop trailing whitespace
RECURSIVE rstrip(_)
rstrip(s) ==
    IF s # <<>> /\ s[Len(s)] = " " THEN rstrip(SubSeq(s, 1, Len(s) - 1)) ELSE s

\* str.lstrip(): drop leading whitespace
RECURSIVE lstrip(_)
lstrip(s) ==
    IF s # <<>> /\ Head(s) = " " THEN lstrip(Tail(s)) ELSE s

\* str.strip()
strip(s) == rstrip(lstrip(s))

\* str.replace(' ', '_')
replace(s) == [k \in 1..Len(s) |-> IF s[k] = " " THEN "_" ELSE s[k]]

\* the trimming step of the derived name
TrimTitleNone(s) == s
TrimTitle(s) == rstrip(s)

\* safe_title and the derived output name
safe_title(title) == TrimTitle(Filter(title))
DerivedName(title) == replace(safe_title(title)) \o Pdf

\* the output name generate_pdf resolves
OutputName(o) == IF o.output # <<>> THEN o.output ELSE DerivedName(o.title)

\* str(n) for n >= 0
Digit(d) == <<"0", "1", "2", "3", "4", "5", "6", "7", "8", "9">>[d + 1]
RECURSIVE str(_)
str(n) == IF n < 10 THEN <<Digit(n)>> ELSE str(n \div 10) \o <<Digit(n % 10)>>

\* os.path.basename and os.path.splitext(...)[0]
RECURSIVE basename(_)
basename(p) ==
    IF \E k \in 1..Len(p) : p[k] = "/"
    THEN basename(Tail(p))
    ELSE p
LastDot(p) == IF \E k \in 1..Len(p) : p[k] = "."
              THEN CHOOSE k \in 1..Len(p) : p[k] = "." /\ \A j \in (k+1)..Len(p) : p[j] # "."
              ELSE 0
splitext0(p) == IF LastDot(p) > 1 THEN SubSeq(p, 1, LastDot(p) - 1) ELSE p
FontBaseName(path) == splitext0(basename(path))

\* ---- units and the content rectangle ----
inches_to_points(inches) == inches * inch

width_pt(o) == inches_to_points(o.width)
height_pt(o) == inches_to_points(o.height)
left(o) == inches_to_points(o.margin_left)
right(o) == width_pt(o) - inches_to_points(o.margin_right)
top(o) == height_pt(o) - inches_to_points(o.margin_top)
bottom(o) == inches_to_points(o.margin_bottom)

PageTypes == {"lined", "dotted", "grid", "blank"}

\* the spacing each pattern steps by, in points
LinedSpacing(o) == inches_to_points(o.line_spacing)
DotSpacing(o) == inches_to_points(o.dot_spacing)
GridSpacing(o) ==
    inches_to_points(IF o.grid_spacing # None THEN o.grid_spacing[1] ELSE o.line_spacing)

\* ---- the drawing surface (reportlab canvas.Canvas) ----
\* Colours, line widths and opacity are in percent of 1.0.
DefaultGState == [alpha |-> 100, rot |-> 0, tx |-> 0, ty |-> 0]

NoCanvas ==
    [opened |-> FALSE, filename |-> <<>>, pagesize |-> <<0, 0>>, pages |-> <<>>,
     cmds |-> <<>>, gs |-> DefaultGState, stack |-> <<>>, saved |-> 0]

\* canvas.Canvas(output_filename, pagesize=(width_pt, height_pt))
Canvas(filename, w, h) ==
    [NoCanvas EXCEPT !.opened = TRUE, !.filename = filename, !.pagesize = <<w, h>>]

\* one command of the current page, with the graphics state it is issued in
\* (what: the element of the page a text command draws, "" for the others)
Cmd(c, what, op, args, text) ==
    [op |-> op, what |-> what, args |-> args, text |-> text, gs |-> c.gs,
     depth |-> Len(c.stack)]
EmitAs(c, what, op, args, text) ==
    [c EXCEPT !.cmds = Append(@, Cmd(c, what, op, args, text))]
Emit(c, op, args, text) == EmitAs(c, "", op, args, text)

setFillColorRGB(c, r, g, b) == Emit(c, "setFillColorRGB", <<r, g, b>>, <<>>)
setLineWidth(c, w) == Emit(c, "setLineWidth", <<w>>, <<>>)
setFont(c, name, size) == Emit(c, "setFont", <<size>>, name)
rect(c, x, y, w, h) == Emit(c, "rect", <<x, y, w, h>>, <<>>)
line(c, x1, y1, x2, y2) == Emit(c, "line", <<x1, y1, x2, y2>>, <<>>)
circle(c, x, y, r) == Emit(c, "circle", <<x, y, r>>, <<>>)
drawImage(c, x, y, w, h) == Emit(c, "drawImage", <<x, y, w, h>>, <<>>)
drawString(c, what, x, y, text) == EmitAs(c, what, "drawString", <<x, y>>, text)
drawCentredString(c, what, x, y, text) ==
    EmitAs(c, what, "drawCentredString", <<x, y>>, text)
saveState(c) ==
    [Emit(c, "saveState", <<>>, <<>>) EXCEPT !.stack = Append(@, c.gs)]
restoreState(c) ==
    LET e == Emit(c, "restoreState", <<>>, <<>>)
    IN  IF c.stack = <<>> THEN e
        ELSE [e EXCEPT !.gs = c.stack[Len(c.stack)],
                       !.stack = SubSeq(c.stack, 1, Len(c.stack) - 1)]
setFillAlpha(c, a) == [Emit(c, "setFillAlpha", <<a>>, <<>>) EXCEPT !.gs.alpha = a]
translate(c, dx, dy) ==
    [Emit(c, "translate", <<dx, dy>>, <<>>) EXCEPT !.gs.tx = @ + dx, !.gs.ty = @ + dy]
rotate(c, deg) == [Emit(c, "rotate", <<deg>>, <<>>) EXCEPT !.gs.rot = @ + deg]
\* showPage seals the current page and starts an empty one
showPage(c) ==
    LET e == Emit(c, "showPage", <<>>, <<>>)
    IN  [e EXCEPT !.pages = Append(@, e.cmds), !.cmds = <<>>]
\* save() finalises the document
save(c) == [c EXCEPT !.saved = @ + 1]

\* the font a renderer selects: the custom font when bound, else the built-in
ActiveFont(custom_font, builtin) ==
    IF custom_font # None /\ custom_font[1] # <<>> THEN custom_font[1] ELSE builtin

\* ---- generate_cover_page ----
\* imageDrawn: the cover image exists and drawImage did not raise
CoverBackground(c, o, imageDrawn) ==
    IF imageDrawn
    THEN drawImage(c, 0, 0, width_pt(o), height_pt(o))
    ELSE rect(setFillColorRGB(c, 100, 100, 100), 0, 0, width_pt(o), height_pt(o))

generate_cover_page(c, o, custom_font, imageDrawn) ==
    LET title_font_size == 36
        subtitle_font_size == 24
        author_font_size == 18
        y0 == height_pt(o) - (3 * inch) \div 2
        c1 == CoverBackground(c, o, imageDrawn)
        c2 == setFont(c1, ActiveFont(custom_font, HelveticaBold), title_font_size)
        c3 == setFillColorRGB(c2, 0, 0, 0)
        c4 == drawCentredString(c3, "title", width_pt(o) \div 2, y0, o.title)
        y1 == IF o.subtitle # <<>> THEN y0 - (title_font_size + 10) ELSE y0
        c5 == IF o.subtitle # <<>>
              THEN drawCentredString(
                       setFont(c4, ActiveFont(custom_font, Helvetica), subtitle_font_size),
                       "subtitle", width_pt(o) \div 2, y1, o.subtitle)
              ELSE c4
        y2 == IF o.author # <<>> THEN y1 - (subtitle_font_size + 10) ELSE y1
        c6 == IF o.author # <<>>
              THEN drawCentredString(
                       setFont(c5, ActiveFont(custom_font, HelveticaOblique), author_font_size),
                       "author", width_pt(o) \div 2, y2, <<"B", "y", " ">> \o o.author)
              ELSE c5
    IN  showPage(c6)

\* ---- generate_back_cover_page ----
TheEnd == <<"The End">>
generate_back_cover_page(c, o, custom_font) ==
    LET c1 == rect(setFillColorRGB(c, 100, 100, 100), 0, 0, width_pt(o), height_pt(o))
        c2 == setFillColorRGB(c1, 0, 0, 0)
        c3 == setFont(c2, ActiveFont(custom_font, HelveticaBold), 24)
        c4 == drawCentredString(c3, "back", width_pt(o) \div 2, height_pt(o) \div 2, TheEnd)
    IN  showPage(c4)

\* ---- the overlays of generate_interior_page ----
WatermarkOpacity == 10
WatermarkAngle == 45

WatermarkUnrotated(c, o, custom_font, alphaOk) ==
    LET c1 == saveState(c)
        c2 == IF alphaOk THEN setFillAlpha(c1, WatermarkOpacity) ELSE c1
        c3 == setFont(c2, ActiveFont(custom_font, Helvetica), 50)
        c4 == setFillColorRGB(c3, 80, 80, 80)
        c5 == translate(c4, width_pt(o) \div 2, height_pt(o) \div 2)
        c7 == drawCentredString(c5, "watermark", 0, 0, o.watermark)
    IN  restoreState(c7)

WatermarkUnrestored(c, o, custom_font, alphaOk) ==
    LET c1 == saveState(c)
        c2 == IF alphaOk THEN setFillAlpha(c1, WatermarkOpacity) ELSE c1
        c3 == setFont(c2, ActiveFont(custom_font, Helvetica), 50)
        c4 == setFillColorRGB(c3, 80, 80, 80)
        c5 == translate(c4, width_pt(o) \div 2, height_pt(o) \div 2)
        c6 == rotate(c5, WatermarkAngle)
    IN  drawCentredString(c6, "watermark", 0, 0, o.watermark)

\* alphaOk: setFillAlpha did not raise (the code swallows its exception)
Watermark(c, o, custom_font, alphaOk) ==
    LET c1 == saveState(c)
        c2 == IF alphaOk THEN setFillAlpha(c1, WatermarkOpacity) ELSE c1
        c3 == setFont(c2, ActiveFont(custom_font, Helvetica), 50)
        c4 == setFillColorRGB(c3, 80, 80, 80)
        c5 == translate(c4, width_pt(o) \div 2, height_pt(o) \div 2)
        c6 == rotate(c5, WatermarkAngle)
        c7 == drawCentredString(c6, "watermark", 0, 0, o.watermark)
    IN  restoreState(c7)

HeaderText(c, o, custom_font) ==
    LET c1 == setFillColorRGB(c, 0, 0, 0)
        c2 == setFont(c1, ActiveFont(custom_font, Helvetica), 12)
    IN  drawString(c2, "header", left(o), height_pt(o) - inches_to_points(o.margin_top) + 5,
                   o.header_text)

FooterText(c, o, custom_font) ==
    LET c1 == setFillColorRGB(c, 0, 0, 0)
        c2 == setFont(c1, ActiveFont(custom_font, Helvetica), 12)
    IN  drawString(c2, "footer", left(o), inches_to_points(o.margin_bottom) - 15,
                   o.footer_text)

PageNumberText(c, o, page_number, custom_font) ==
    LET c1 == setFillColorRGB(c, 0, 0, 0)
        c2 == setFont(c1, ActiveFont(custom_font, Helvetica), 10)
    IN  drawCentredString(c2, "page_number", width_pt(o) \div 2, inch \div 4,
                          str(page_number[1]))

\* the page_number argument generate_pdf passes for interior page i
PageNumberArgFirst(o, i) == IF o.page_numbers THEN Some(1) ELSE None
PageNumberArg(o, i) == IF o.page_numbers THEN Some(i) ELSE None

\* lines 133-177: watermark, header, footer, page number, showPage
Overlays(c, o, page_number, custom_font, alphaOk) ==
    LET c1 == IF o.watermark # <<>> THEN Watermark(c, o, custom_font, alphaOk) ELSE c
        c2 == IF o.header_text # <<>> THEN HeaderText(c1, o, custom_font) ELSE c1
        c3 == IF o.footer_text # <<>> THEN FooterText(c2, o, custom_font) ELSE c2
        c4 == IF o.page_numbers /\ page_number # None
              THEN PageNumberText(c3, o, page_number, custom_font)
              ELSE c3
    IN  showPage(c4)

\* ---- inputs ----
Spacings == 0..MaxSpacing
FontPath == <<"d", "/", "f", ".", "t">>

Default ==
    [title |-> <<"a">>, subtitle |-> <<>>, author |-> <<>>, pages |-> 1,
     width |-> 3, height |-> 3, type |-> "blank",
     margin_left |-> 1, margin_right |-> 0, margin_top |-> 1, margin_bottom |-> 0,
     line_spacing |-> 1, dot_spacing |-> 1, grid_spacing |-> Some(1),
     page_numbers |-> FALSE, watermark |-> <<>>, header_text |-> <<>>,
     footer_text |-> <<>>, cover_image |-> <<>>, font |-> <<>>, font_name |-> <<>>,
     output |-> <<>>]

\* a pattern kind with the spacing it steps by (the other spacings stay 1)
PatternChoices ==
    {[type |-> "lined", ls |-> s, ds |-> 1, gs |-> Some(1)] : s \in Spacings}
    \cup {[type |-> "dotted", ls |-> 1, ds |-> s, gs |-> Some(1)] : s \in Spacings}
    \cup {[type |-> "grid", ls |-> 1, ds |-> 1, gs |-> Some(s)] : s \in Spacings}
    \cup {[type |-> "grid", ls |-> s, ds |-> 1, gs |-> None] : s \in Spacings}
    \cup {[type |-> t, ls |-> 1, ds |-> 1, gs |-> Some(1)] : t \in {"blank", "zigzag"}}

\* one interior page: every geometry with every pattern
PatternInputs ==
    {[Default EXCEPT !.width = w, !.height = h,
                     !.margin_left = ml, !.margin_right = mr,
                     !.margin_top = mt, !.margin_bottom = mb,
                     !.type = p.type, !.line_spacing = p.ls,
                     !.dot_spacing = p.ds, !.grid_spacing = p.gs] :
        w \in 1..MaxDim, h \in 1..MaxDim,
        ml \in 0..MaxMargin, mr \in 0..MaxMargin,
        mt \in 0..MaxMargin, mb \in 0..MaxMargin, p \in PatternChoices}

FontChoices ==
    {[font |-> <<>>, font_name |-> <<>>],
     [font |-> FontPath, font_name |-> <<>>],
     [font |-> FontPath, font_name |-> <<"F">>]}

\* the whole document: page count, pattern kind, overlays and resources
AssemblyInputs ==
    {[Default EXCEPT !.pages = n, !.type = t, !.watermark = wm, !.page_numbers = pn,
                     !.header_text = hd, !.footer_text = ft,
                     !.font = f.font, !.font_name = f.font_name,
                     !.cover_image = img, !.output = out] :
        n \in 0..MaxPages, t \in PageTypes \cup {"zigzag"},
        wm \in {<<>>, <<"W">>}, pn \in BOOLEAN,
        hd \in {<<>>, <<"H">>}, ft \in {<<>>, <<"T">>},
        f \in FontChoices, img \in {<<>>, <<"i">>}, out \in {<<>>, <<"o">>}}

\* the output name: every title up to MaxLen characters
NameInputs ==
    {[Default EXCEPT !.title = t, !.output = out] :
        t \in Strings(MaxLen), out \in {<<>>, <<"o">>}}

\* the fields on_generate checks
FormInputs ==
    {[Default EXCEPT !.title = t, !.pages = n, !.width = w, !.height = h,
                     !.subtitle = st, !.author = au] :
        t \in {<<>>, <<" ">>, <<"a">>}, n \in {-1, 0, 1}, w \in {0, 1, 3}, h \in {0, 3},
        st \in {<<>>, <<"s">>}, au \in {<<>>, <<"u">>}}

Inputs == PatternInputs \cup AssemblyInputs \cup NameInputs \cup FormInputs

\* what the form can hold: the page type comes from a read-only combo box and
\* every spacing field is parsed with float()
FormCanHold(o) == o.type \in PageTypes /\ o.grid_spacing # None

\* the records tried through the form; the pattern geometries and the overlay
\* and resource combinations are tried on generate_pdf itself, which is all
\* that on_generate runs once its checks have passed
GuiInputs == {o \in NameInputs \cup FormInputs : FormCanHold(o)}

\* ---- state ----
VARIABLES
    entry,            \* "gui": on_generate calls generate_pdf; "direct": a caller does
    fieldsNumeric,    \* the numeric form fields parse (int(), float())
    input,            \* the form fields, or the record passed to generate_pdf
    options,          \* the options dict generate_pdf works on
    pc,               \* position in on_generate / generate_pdf
    c,                \* the canvas
    i,                \* interior page index of the for loop
    x, y,             \* loop variables of generate_interior_page
    custom_font,      \* None or the registered font name
    output_filename,  \* the resolved output name
    result,           \* return value of generate_pdf (None or the filename)
    messages,         \* messagebox calls, in order
    sealLog,          \* which renderer sealed each page, in order
    registerCalls,    \* calls of pdfmetrics.registerFont
    drawImageCalls,   \* calls of c.drawImage
    raisedAt,         \* where an exception reached generate_pdf's handler
    disk              \* names of the files written

vars == <<entry, fieldsNumeric, input, options, pc, c, i, x, y, custom_font,
          output_filename, result, messages, sealLog, registerCalls, drawImageCalls,
          raisedAt, disk>>

Init ==
    /\ \E in \in Inputs, e \in {"direct", "gui"}, num \in BOOLEAN :
          /\ e = "gui" => in \in GuiInputs /\ (num \/ in \in FormInputs)
          /\ e = "direct" => num
          /\ input = in
          /\ entry = e
          /\ fieldsNumeric = num
    /\ options = input
    /\ pc = IF entry = "gui" THEN "on_generate" ELSE "generate_pdf"
    /\ c = NoCanvas
    /\ i = 0
    /\ x = 0
    /\ y = 0
    /\ custom_font = None
    /\ output_filename = <<>>
    /\ result = None
    /\ messages = <<>>
    /\ sealLog = <<>>
    /\ registerCalls = 0
    /\ drawImageCalls = 0
    /\ raisedAt = ""
    /\ disk = {}

Message(kind, title) == [kind |-> kind, title |-> title]

\* ---- BookGeneratorGUI.on_generate ----
\* the options dict on_generate builds from the form
FormOptions(f) ==
    [f EXCEPT !.title = strip(@), !.subtitle = strip(@), !.author = strip(@),
              !.watermark = strip(@), !.header_text = strip(@), !.footer_text = strip(@),
              !.cover_image = strip(@), !.font = strip(@), !.font_name = strip(@),
              !.output = strip(@)]

\* the checks of on_generate before it calls generate_pdf
FormAccepted(o) == o.title # <<>> /\ o.pages > 0 /\ o.width > 0 /\ o.height > 0

OnGenerate ==
    /\ pc = "on_generate"
    /\ IF fieldsNumeric /\ FormAccepted(FormOptions(input))
       THEN /\ options' = FormOptions(input)
            /\ pc' = "generate_pdf"
            /\ UNCHANGED messages
       ELSE /\ messages' = Append(messages, Message("showerror", "Input Error"))
            /\ pc' = "idle"
            /\ UNCHANGED options
    /\ UNCHANGED <<entry, fieldsNumeric, input, c, i, x, y, custom_font, output_filename,
                   result, sealLog, registerCalls, drawImageCalls, raisedAt,
                   disk>>

\* ---- generate_pdf ----
\* lines 199-213: sizes, margins, output name, canvas
GeneratePdfOpen ==
    /\ pc = "generate_pdf"
    /\ output_filename' = OutputName(options)
    /\ c' = Canvas(OutputName(options), width_pt(options), height_pt(options))
    /\ pc' = "font"
    /\ UNCHANGED <<entry, fieldsNumeric, input, options, i, x, y, custom_font, result,
                   messages, sealLog, registerCalls, drawImageCalls, raisedAt, disk>>

\* options['font_name'] after line 219
NamedOptions(o) ==
    IF o.font_name = <<>> THEN [o EXCEPT !.font_name = FontBaseName(o.font)] ELSE o

\* custom_font after the try block of lines 220-224
RegisteredFontAlways(o, ok) == Some(o.font_name)
RegisteredFont(o, ok) == IF ok THEN Some(o.font_name) ELSE None

\* lines 216-224: register the custom font; ok: registerFont did not raise
RegisterFont ==
    /\ pc = "font"
    /\ IF options.font # <<>>
       THEN \E ok \in BOOLEAN :
              /\ options' = NamedOptions(options)
              /\ registerCalls' = registerCalls + 1
              /\ custom_font' = RegisteredFont(options', ok)
              /\ messages' = IF ok THEN messages
                             ELSE Append(messages, Message("showwarning", "Font Warning"))
       ELSE /\ custom_font' = None
            /\ UNCHANGED <<options, registerCalls, messages>>
    /\ pc' = "cover"
    /\ UNCHANGED <<entry, fieldsNumeric, input, c, i, x, y, output_filename, result,
                   sealLog, drawImageCalls, raisedAt, disk>>

Sealed(kind, index) == [kind |-> kind, index |-> index]

\* lines 226-227 and generate_cover_page; exists: os.path.exists(cover_image),
\* ok: drawImage did not raise
CoverPage ==
    /\ pc = "cover"
    /\ \E exists \in BOOLEAN, ok \in BOOLEAN :
          LET tried == options.cover_image # <<>> /\ exists
          IN  /\ c' = generate_cover_page(c, options, custom_font, tried /\ ok)
              /\ drawImageCalls' = drawImageCalls + (IF tried THEN 1 ELSE 0)
              /\ messages' = IF tried /\ ~ok
                             THEN Append(messages,
                                         Message("showwarning", "Cover Image Warning"))
                             ELSE messages
    /\ sealLog' = Append(sealLog, Sealed("cover", 0))
    /\ i' = 1
    /\ pc' = "for"
    /\ UNCHANGED <<entry, fieldsNumeric, input, options, x, y, custom_font,
                   output_filename, result, registerCalls, raisedAt, disk>>

\* the for loop of line 229 has another page to draw
MorePagesOffByOne(o, k) == k < o.pages
MorePages(o, k) == k <= o.pages

\* the loop conditions of generate_interior_page
LineFitsInclusive(o, yy) == yy >= bottom(o)
LineFits(o, yy) == yy > bottom(o)
ColumnFitsInclusive(o, xx) == xx <= right(o)
ColumnFits(o, xx) == xx < right(o)
RowFitsInclusive(o, yy) == yy <= top(o)
RowFits(o, yy) == yy < top(o)

\* lines 94-131: the content rectangle and the set-up of the pattern
InteriorBegin ==
    /\ pc = "for"
    /\ MorePages(options, i)
    /\ CASE options.type = "lined" ->
              /\ c' = setLineWidth(c, 50)
              /\ y' = top(options) - LinedSpacing(options)
              /\ pc' = "lined"
              /\ UNCHANGED <<x, raisedAt>>
         [] options.type = "dotted" ->
              /\ c' = setFillColorRGB(c, 50, 50, 50)
              /\ y' = bottom(options) + DotSpacing(options) \div 2
              /\ pc' = "dotted_rows"
              /\ UNCHANGED <<x, raisedAt>>
         [] options.type = "grid" ->
              /\ c' = setLineWidth(c, 50)
              /\ y' = top(options) - GridSpacing(options)
              /\ pc' = "grid_h"
              /\ UNCHANGED <<x, raisedAt>>
         [] options.type = "blank" ->
              /\ pc' = "overlays"
              /\ UNCHANGED <<c, x, y, raisedAt>>
         [] OTHER ->
              /\ raisedAt' = "generate_interior_page"
              /\ pc' = "except"
              /\ UNCHANGED <<c, x, y>>
    /\ UNCHANGED <<entry, fieldsNumeric, input, options, i, custom_font, output_filename,
                   result, messages, sealLog, registerCalls, drawImageCalls, disk>>

\* lines 103-105: one test of the lined loop and, when it holds, its body
LinedLoop ==
    /\ pc = "lined"
    /\ IF LineFits(options, y)
       THEN /\ Len(c.cmds) < IterCap
            /\ c' = line(c, left(options), y, right(options), y)
            /\ y' = y - LinedSpacing(options)
            /\ UNCHANGED pc
       ELSE /\ pc' = "overlays"
            /\ UNCHANGED <<c, y>>
    /\ UNCHANGED <<entry, fieldsNumeric, input, options, i, x, custom_font,
                   output_filename, result, messages, sealLog, registerCalls,
                   drawImageCalls, raisedAt, disk>>

\* lines 111-112 and 116: one test of the outer dotted loop
DottedRows ==
    /\ pc = "dotted_rows"
    /\ IF RowFits(options, y)
       THEN /\ x' = left(options) + DotSpacing(options) \div 2
            /\ pc' = "dotted_dots"
       ELSE /\ pc' = "overlays"
            /\ UNCHANGED x
    /\ UNCHANGED <<entry, fieldsNumeric, input, options, c, i, y, custom_font,
                   output_filename, result, messages, sealLog, registerCalls,
                   drawImageCalls, raisedAt, disk>>

\* lines 113-116: one test of the inner dotted loop and its body; when the row
\* is finished, y += spacing_pt
DottedDots ==
    /\ pc = "dotted_dots"
    /\ IF ColumnFits(options, x)
       THEN /\ Len(c.cmds) < IterCap
            /\ c' = circle(c, x, y, 1)
            /\ x' = x + DotSpacing(options)
            /\ UNCHANGED <<y, pc>>
       ELSE /\ y' = y + DotSpacing(options)
            /\ pc' = "dotted_rows"
            /\ UNCHANGED <<c, x>>
    /\ UNCHANGED <<entry, fieldsNumeric, input, options, i, custom_font,
                   output_filename, result, messages, sealLog, registerCalls,
                   drawImageCalls, raisedAt, disk>>

\* lines 121-124: the horizontal pass of the grid
GridRows ==
    /\ pc = "grid_h"
    /\ IF LineFits(options, y)
       THEN /\ Len(c.cmds) < IterCap
            /\ c' = line(c, left(options), y, right(options), y)
            /\ y' = y - GridSpacing(options)
            /\ UNCHANGED <<x, pc>>
       ELSE /\ x' = left(options) + GridSpacing(options)
            /\ pc' = "grid_v"
            /\ UNCHANGED <<c, y>>
    /\ UNCHANGED <<entry, fieldsNumeric, input, options, i, custom_font,
                   output_filename, result, messages, sealLog, registerCalls,
                   drawImageCalls, raisedAt, disk>>

\* lines 125-127: the vertical pass of the grid
GridColumns ==
    /\ pc = "grid_v"
    /\ IF ColumnFits(options, x)
       THEN /\ Len(c.cmds) < IterCap
            /\ c' = line(c, x, top(options), x, bottom(options))
            /\ x' = x + GridSpacing(options)
            /\ UNCHANGED pc
       ELSE /\ pc' = "overlays"
            /\ UNCHANGED <<c, x>>
    /\ UNCHANGED <<entry, fieldsNumeric, input, options, i, y, custom_font,
                   output_filename, result, messages, sealLog, registerCalls,
                   drawImageCalls, raisedAt, disk>>

\* lines 133-177, then the next turn of the for loop; alphaOk: setFillAlpha
\* did not raise
InteriorOverlays ==
    /\ pc = "overlays"
    /\ \E alphaOk \in BOOLEAN :
          c' = Overlays(c, options, PageNumberArg(options, i), custom_font, alphaOk)
    /\ sealLog' = Append(sealLog, Sealed("interior", i))
    /\ i' = i + 1
    /\ pc' = "for"
    /\ UNCHANGED <<entry, fieldsNumeric, input, options, x, y, custom_font,
                   output_filename, result, messages, registerCalls, drawImageCalls,
                   raisedAt, disk>>

\* line 240 and generate_back_cover_page
BackCover ==
    /\ pc = "for"
    /\ ~MorePages(options, i)
    /\ c' = generate_back_cover_page(c, options, custom_font)
    /\ sealLog' = Append(sealLog, Sealed("back", 0))
    /\ pc' = "save"
    /\ UNCHANGED <<entry, fieldsNumeric, input, options, i, x, y, custom_font,
                   output_filename, result, messages, registerCalls, drawImageCalls,
                   raisedAt, disk>>

\* lines 241-242: c.save() and the return; ok: save did not raise
Save ==
    /\ pc = "save"
    /\ \E ok \in BOOLEAN :
          IF ok
          THEN /\ c' = save(c)
               /\ disk' = disk \cup {c.filename}
               /\ result' = Some(output_filename)
               /\ pc' = "done"
               /\ UNCHANGED raisedAt
          ELSE /\ raisedAt' = "save"
               /\ pc' = "except"
               /\ UNCHANGED <<c, disk, result>>
    /\ UNCHANGED <<entry, fieldsNumeric, input, options, i, x, y, custom_font,
                   output_filename, messages, sealLog, registerCalls, drawImageCalls>>

ExceptReturnsName ==
    /\ pc = "except"
    /\ messages' = Append(messages, Message("showerror", "Error"))
    /\ result' = Some(output_filename)
    /\ pc' = "done"
    /\ UNCHANGED <<entry, fieldsNumeric, input, options, c, i, x, y, custom_font,
                   output_filename, sealLog, registerCalls, drawImageCalls, raisedAt,
                   disk>>

\* lines 243-245: the handler of generate_pdf
Except ==
    /\ pc = "except"
    /\ messages' = Append(messages, Message("showerror", "Error"))
    /\ result' = None
    /\ pc' = "done"
    /\ UNCHANGED <<entry, fieldsNumeric, input, options, c, i, x, y, custom_font,
                   output_filename, sealLog, registerCalls, drawImageCalls, raisedAt,
                   disk>>

\* lines 615-617 of on_generate: report the file generate_pdf returned
OnGenerateReport ==
    /\ pc = "done"
    /\ entry = "gui"
    /\ messages' = IF result # None /\ result[1] # <<>>
                   THEN Append(messages, Message("showinfo", "Success"))
                   ELSE messages
    /\ pc' = "idle"
    /\ UNCHANGED <<entry, fieldsNumeric, input, options, c, i, x, y, custom_font,
                   output_filename, result, sealLog, registerCalls, drawImageCalls,
                   raisedAt, disk>>

Next ==
    \/ OnGenerate
    \/ GeneratePdfOpen
    \/ RegisterFont
    \/ CoverPage
    \/ InteriorBegin
    \/ LinedLoop
    \/ DottedRows
    \/ DottedDots
    \/ GridRows
    \/ GridColumns
    \/ InteriorOverlays
    \/ BackCover
    \/ Save
    \/ Except
    \/ OnGenerateReport

Spec == Init /\ [][Next]_vars

\* ---- what the checks below talk about ----
Returned == pc \in {"done", "idle"} /\ c.opened
InteriorPages == {k \in 1..Len(c.pages) : sealLog[k].kind = "interior"}
ContentWidth(o) == right(o) - left(o)
ContentHeight(o) == top(o) - bottom(o)
Lines(cmds) == {k \in 1..Len(cmds) : cmds[k].op = "line"}
HorizontalLines(cmds) == {k \in Lines(cmds) : cmds[k].args[2] = cmds[k].args[4]}
VerticalLines(cmds) == {k \in Lines(cmds) : cmds[k].args[1] = cmds[k].args[3]}
\* the number of k >= 1 with k * s < h, for h > 0 and s > 0
StepsInside(h, s) == (h + s - 1) \div s - 1

\* cover, interior 1..n, back cover
ExpectedOrder(n) ==
    <<Sealed("cover", 0)>> \o [k \in 1..n |-> Sealed("interior", k)] \o <<Sealed("back", 0)>>
IsPrefix(s, t) == Len(s) <= Len(t) /\ s = SubSeq(t, 1, Len(s))

\* C1: with N >= 1 interior pages and no step raising, generate_pdf seals the
\* cover, the interior pages 1..N in increasing order and the back cover, N + 2
\* pages in all; save is called once, after the back cover, and nothing is
\* drawn after it.
C1_PagesInOrderThenSave ==
    options.pages >= 1 =>
        /\ IsPrefix(sealLog, ExpectedOrder(options.pages))
        /\ Len(c.pages) = Len(sealLog)
        /\ c.saved <= 1
        /\ c.saved = 1 => sealLog = ExpectedOrder(options.pages) /\ c.cmds = <<>>
        /\ Returned /\ raisedAt = "" =>
              /\ c.saved = 1
              /\ Len(c.pages) = options.pages + 2
              /\ c.cmds = <<>>

C1_Witness ==
    /\ pc = "done"
    /\ raisedAt = ""
    /\ options.pages = 2
    /\ c.saved = 1
    /\ Len(c.pages) = 4

\* C2 as stated: a lined page with content height H > 0 and spacing S > 0
\* carries floor(H / S) lines, also when S divides H.
C2_LinedCountIsFloor ==
    \A k \in InteriorPages :
        options.type = "lined" /\ ContentHeight(options) > 0 /\ LinedSpacing(options) > 0
        => Cardinality(Lines(c.pages[k])) = ContentHeight(options) \div LinedSpacing(options)

\* C2 amended: a lined page with content height H > 0 and spacing S > 0 carries
\* one line for each k >= 1 with k * S < H, that is ceil(H / S) - 1 lines:
\* floor(H / S) when S does not divide H, and H / S - 1 when it does.
C2_LinedCount ==
    \A k \in InteriorPages :
        LET H == ContentHeight(options)
            S == LinedSpacing(options)
            n == Cardinality(Lines(c.pages[k]))
        IN  options.type = "lined" /\ H > 0 /\ S > 0 =>
              /\ n = StepsInside(H, S)
              /\ H % S # 0 => n = H \div S
              /\ H % S = 0 => n = H \div S - 1
              /\ \A j \in 1..n : \E m \in Lines(c.pages[k]) :
                    c.pages[k][m].args[2] = top(options) - j * S

C2_Witness ==
    /\ options.type = "lined"
    /\ InteriorPages # {}
    /\ ContentHeight(options) = 2 * LinedSpacing(options)
    /\ LinedSpacing(options) > 0
    /\ \A k \in InteriorPages : Cardinality(Lines(c.pages[k])) = 1

\* C3 as stated: a grid page with content width W > 0, height H > 0 and
\* spacing S > 0 carries floor(H / S) horizontal and floor(W / S) vertical lines.
C3_GridCountIsFloor ==
    \A k \in InteriorPages :
        LET W == ContentWidth(options)
            H == ContentHeight(options)
            S == GridSpacing(options)
        IN  options.type = "grid" /\ W > 0 /\ H > 0 /\ S > 0 =>
              /\ Cardinality(HorizontalLines(c.pages[k])) = H \div S
              /\ Cardinality(VerticalLines(c.pages[k])) = W \div S

\* C3 amended: a grid page with content width W > 0, height H > 0 and spacing
\* S > 0 carries ceil(H / S) - 1 horizontal and ceil(W / S) - 1 vertical lines:
\* the floor on an axis S does not divide, one less on an axis it divides.
C3_GridCount ==
    \A k \in InteriorPages :
        LET W == ContentWidth(options)
            H == ContentHeight(options)
            S == GridSpacing(options)
            nh == Cardinality(HorizontalLines(c.pages[k]))
            nv == Cardinality(VerticalLines(c.pages[k]))
        IN  options.type = "grid" /\ W > 0 /\ H > 0 /\ S > 0 =>
              /\ nh = StepsInside(H, S)
              /\ nv = StepsInside(W, S)
              /\ nh = (IF H % S = 0 THEN H \div S - 1 ELSE H \div S)
              /\ nv = (IF W % S = 0 THEN W \div S - 1 ELSE W \div S)
              /\ nh + nv = Cardinality(Lines(c.pages[k]))

C3_Witness ==
    /\ options.type = "grid"
    /\ InteriorPages # {}
    /\ GridSpacing(options) = 2 * inch
    /\ ContentWidth(options) = 2 * inch
    /\ ContentHeight(options) = 3 * inch
    /\ \A k \in InteriorPages :
          /\ Cardinality(VerticalLines(c.pages[k])) = 0
          /\ Cardinality(HorizontalLines(c.pages[k])) = 1

\* C4 as stated: with a page count <= 0 the assembler fails with a validation
\* error before any output resource is opened: no canvas, no page, no save,
\* no file, and no filename returned.
C4_NoOutputForNonPositivePages ==
    options.pages <= 0 =>
        /\ ~c.opened
        /\ c.pages = <<>>
        /\ c.cmds = <<>>
        /\ c.saved = 0
        /\ disk = {}
        /\ result = None

\* C5 as stated: with a degenerate content rectangle (right <= left or
\* top <= bottom) generation is rejected before any drawing command, and every
\* interior page drawn has right > left and top > bottom.
Degenerate(o) == right(o) <= left(o) \/ top(o) <= bottom(o)
C5_DegenerateMarginsRejected ==
    /\ Degenerate(options) => c.cmds = <<>> /\ c.pages = <<>>
    /\ InteriorPages # {} => ~Degenerate(options)

\* C6 as stated: a pattern kind outside {lined, dotted, grid, blank} fails
\* generation before the document is opened and before any page is drawn, and
\* the error is never raised from inside the drawing of an interior page.
C6_UnsupportedKindCaughtEarly ==
    options.type \notin PageTypes =>
        /\ ~c.opened
        /\ c.pages = <<>>
        /\ raisedAt # "generate_interior_page"
        /\ result = None

\* ---- resources ----
Warned(title) == \E k \in 1..Len(messages) : messages[k] = Message("showwarning", title)
FontFailed == Warned("Font Warning")
\* the cover has been drawn without its image: the path is absent or missing,
\* or drawImage raised
CoverImageFailed ==
    /\ Len(c.pages) >= 1
    /\ options.cover_image # <<>>
    /\ drawImageCalls = 0 \/ Warned("Cover Image Warning")
AllCmds == [k \in 1..Len(c.pages) |-> c.pages[k]] \o <<c.cmds>>
BuiltinFonts == {Helvetica, HelveticaBold, HelveticaOblique}

\* C7: a font that fails to register or a cover image that is missing or fails
\* to draw never aborts generation: the only exceptions that reach the handler
\* come from an unsupported page type or from save; otherwise the cover, the N
\* interior pages and the back cover are sealed, save is called and the output
\* name is returned. After a font failure custom_font stays unset and every
\* font selected is a built-in Helvetica; after an image failure the cover
\* starts with a white rectangle over the whole page; neither resource is
\* tried twice.
C7_ResourceFailureIsolated ==
    /\ registerCalls <= 1
    /\ drawImageCalls <= 1
    /\ FontFailed =>
          /\ custom_font = None
          /\ pc # "font"
          /\ \A p \in 1..Len(AllCmds) : \A k \in 1..Len(AllCmds[p]) :
                AllCmds[p][k].op = "setFont" => AllCmds[p][k].text \in BuiltinFonts
    /\ CoverImageFailed =>
          /\ c.pages[1][1].op = "setFillColorRGB"
          /\ c.pages[1][1].args = <<100, 100, 100>>
          /\ c.pages[1][2].op = "rect"
          /\ c.pages[1][2].args = <<0, 0, width_pt(options), height_pt(options)>>
          /\ \A k \in 1..Len(c.pages[1]) : c.pages[1][k].op # "drawImage"
    /\ FontFailed \/ CoverImageFailed =>
          /\ raisedAt \in {"", "generate_interior_page", "save"}
          /\ raisedAt = "generate_interior_page" => options.type \notin PageTypes
          /\ Returned /\ raisedAt = "" =>
                /\ Len(c.pages) = (IF options.pages > 0 THEN options.pages ELSE 0) + 2
                /\ c.saved = 1
                /\ result = Some(output_filename)
                /\ output_filename # <<>>

C7_Witness ==
    /\ pc = "done"
    /\ FontFailed
    /\ Warned("Cover Image Warning")
    /\ options.pages = 2
    /\ result = Some(output_filename)
    /\ Len(c.pages) = 4

\* ---- watermark ----
WatermarkOps == {"setFillAlpha", "translate", "rotate", "saveState", "restoreState"}
WatermarkTexts(cmds) == {k \in 1..Len(cmds) : cmds[k].what = "watermark"}
PatternCmds(cmds) == {k \in 1..Len(cmds) : cmds[k].op \in {"line", "circle"}}
NoWatermark(cmds) ==
    /\ WatermarkTexts(cmds) = {}
    /\ \A k \in 1..Len(cmds) : cmds[k].op \notin WatermarkOps
OuterPages == {k \in 1..Len(c.pages) : sealLog[k].kind # "interior"}

\* C8 as stated: an interior page carries no watermark command when the
\* watermark is empty, and otherwise exactly one watermark text, after the
\* pattern, drawn under rotation 45 and opacity 0.1; cover and back cover
\* carry none.
C8_WatermarkAlwaysFaint ==
    /\ \A p \in InteriorPages :
          IF options.watermark = <<>> THEN NoWatermark(c.pages[p])
          ELSE /\ Cardinality(WatermarkTexts(c.pages[p])) = 1
               /\ \A k \in WatermarkTexts(c.pages[p]) :
                     /\ \A j \in PatternCmds(c.pages[p]) : j < k
                     /\ c.pages[p][k].gs.rot = WatermarkAngle
                     /\ c.pages[p][k].gs.alpha = WatermarkOpacity
    /\ \A p \in OuterPages : NoWatermark(c.pages[p])

\* C8 amended: as stated, except that opacity 0.1 is in effect only when the
\* canvas accepted setFillAlpha; when setFillAlpha raised, the exception is
\* swallowed and the one watermark text is drawn, still rotated 45 degrees,
\* at the default opacity.
C8_Watermark ==
    /\ \A p \in InteriorPages :
          IF options.watermark = <<>> THEN NoWatermark(c.pages[p])
          ELSE /\ Cardinality(WatermarkTexts(c.pages[p])) = 1
               /\ \A k \in WatermarkTexts(c.pages[p]) :
                     /\ \A j \in PatternCmds(c.pages[p]) : j < k
                     /\ c.pages[p][k].text = options.watermark
                     /\ c.pages[p][k].gs.rot = WatermarkAngle
                     /\ c.pages[p][k].gs.alpha =
                           (IF \E j \in 1..(k - 1) : c.pages[p][j].op = "setFillAlpha"
                            THEN WatermarkOpacity ELSE DefaultGState.alpha)
    /\ \A p \in OuterPages : NoWatermark(c.pages[p])

C8_Witness ==
    /\ options.watermark # <<>>
    /\ options.type = "dotted"
    /\ Cardinality(InteriorPages) = 2
    /\ \E k \in 1..Len(c.pages[2]) :
          c.pages[2][k].what = "watermark" /\ c.pages[2][k].gs.alpha = WatermarkOpacity
    /\ \E k \in 1..Len(c.pages[3]) :
          c.pages[3][k].what = "watermark" /\ c.pages[3][k].gs.alpha = DefaultGState.alpha

\* ---- page numbers ----
PageNumbers(cmds) == {k \in 1..Len(cmds) : cmds[k].what = "page_number"}
DigitValue(ch) == CHOOSE d \in 0..9 : Digit(d) = ch
RECURSIVE DecimalValue(_)
DecimalValue(t) ==
    IF t = <<>> THEN 0
    ELSE 10 * DecimalValue(SubSeq(t, 1, Len(t) - 1)) + DigitValue(t[Len(t)])

\* C9: with the numbering flag set, the k-th interior page sealed carries
\* exactly one page-number text and it reads k; the cover and the back cover
\* carry none; with the flag unset no page carries a page-number text.
C9_PageNumbers ==
    /\ \A p \in InteriorPages :
          /\ sealLog[p].index = p - 1
          /\ IF options.page_numbers
             THEN /\ Cardinality(PageNumbers(c.pages[p])) = 1
                  /\ \A k \in PageNumbers(c.pages[p]) :
                        /\ c.pages[p][k].text # <<>>
                        /\ DecimalValue(c.pages[p][k].text) = p - 1
             ELSE PageNumbers(c.pages[p]) = {}
    /\ \A p \in OuterPages : PageNumbers(c.pages[p]) = {}

C9_Witness ==
    /\ pc = "done"
    /\ options.page_numbers
    /\ Cardinality(InteriorPages) = 2
    /\ \E k \in 1..Len(c.pages[3]) :
          c.pages[3][k].what = "page_number" /\ c.pages[3][k].text = <<"2">>

\* ---- output name ----
\* C10 as stated: the derived name is the title without the characters that
\* are not alphanumeric, space or underscore, trimmed on both sides, with
\* spaces replaced by underscores, plus '.pdf'.
C10_NameTrimmedBothSides ==
    c.opened =>
        output_filename =
            (IF options.output # <<>> THEN options.output
             ELSE replace(strip(Filter(options.title))) \o Pdf)

\* C10 amended: the explicit name when given; otherwise the kept characters of
\* the title (alphanumeric, space, underscore) up to the last one that is not
\* a space, each space replaced by an underscore, plus '.pdf': only trailing
\* whitespace is trimmed, so the name never ends with an underscore that came
\* from a space but may start with one.
Kept(t) == {k \in 1..Len(t) : isalnum(t[k]) \/ t[k] \in {" ", "_"}}
KeptUpTo(t, k) == Cardinality({j \in Kept(t) : j <= k})
LastSolid(t) == {k \in Kept(t) : t[k] # " " /\ \A j \in Kept(t) : j > k => t[j] = " "}
C10_OutputName ==
    c.opened =>
        IF options.output # <<>> THEN output_filename = options.output
        ELSE LET t == options.title
                 n == Len(output_filename) - Len(Pdf)
             IN  /\ n >= 0
                 /\ SubSeq(output_filename, n + 1, n + Len(Pdf)) = Pdf
                 /\ n = (IF LastSolid(t) = {} THEN 0
                         ELSE KeptUpTo(t, CHOOSE k \in LastSolid(t) : TRUE))
                 /\ \A k \in Kept(t) :
                       KeptUpTo(t, k) <= n =>
                          output_filename[KeptUpTo(t, k)] =
                              (IF t[k] = " " THEN "_" ELSE t[k])
                 /\ n > 0 => \E k \in LastSolid(t) : KeptUpTo(t, k) = n

C10_Witness ==
    /\ c.opened
    /\ options.title = <<" ", "a", " ">>
    /\ options.output = <<>>
    /\ output_filename = <<"_", "a", ".", "p", "d", "f">>

\* ---- failures ----
Shown(kind, title) == {k \in 1..Len(messages) : messages[k] = Message(kind, title)}

\* C11: a failure is fatal and yields no artifact handle. generate_pdf returns
\* the output name only when save has completed; once an exception has reached
\* its handler nothing more is drawn or saved (no retry), one error is shown
\* and None is returned; on_generate shows its success message only for a
\* returned name, and then exactly once.
C11_FailureIsFatal ==
    /\ result # None =>
          /\ result = Some(output_filename)
          /\ output_filename # <<>>
          /\ c.saved = 1
          /\ c.filename \in disk
          /\ raisedAt = ""
          /\ pc \in {"done", "idle"}
    /\ raisedAt # "" =>
          /\ pc \in {"except", "done", "idle"}
          /\ result = None
          /\ c.saved = 0
          /\ c.cmds = <<>>
          /\ Len(c.pages) = Len(sealLog)
          /\ raisedAt = "save" => sealLog[Len(sealLog)].kind = "back"
          /\ raisedAt = "generate_interior_page" => sealLog[Len(sealLog)].kind # "back"
          /\ Cardinality(Shown("showerror", "Error")) = (IF pc = "except" THEN 0 ELSE 1)
    /\ raisedAt = "" => Shown("showerror", "Error") = {}
    /\ Shown("showinfo", "Success") # {} =>
          /\ result # None
          /\ entry = "gui"
          /\ pc = "idle"
          /\ Cardinality(Shown("showinfo", "Success")) = 1
    /\ entry = "gui" /\ pc = "idle" /\ result = None => Shown("showinfo", "Success") = {}

C11_Witness ==
    /\ entry = "gui"
    /\ pc = "idle"
    /\ raisedAt = "save"
    /\ result = None
    /\ Len(c.pages) = 3
    /\ Shown("showerror", "Error") # {}
    /\ Shown("showinfo", "Success") = {}

\* ---- the options record ----
\* the record generate_pdf was called with
PassedIn == IF entry = "gui" THEN FormOptions(input) ELSE input

\* C12 as stated: after generate_pdf returns, every field of the options
\* record, font_name included, has the value it had before the call.
C12_OptionsUnchanged == Returned => options = PassedIn

\* ---- graphics state ----
StateOps == {"translate", "rotate", "setFillAlpha"}
PlainDraws == {"title", "subtitle", "author", "back", "header", "footer", "page_number"}
Occurrences(cmds, op) == {k \in 1..Len(cmds) : cmds[k].op = op}

\* C13: every translate, rotate and opacity change is issued inside a
\* saveState / restoreState pair of its page, the pairs are balanced, and every
\* header, footer, page-number, cover and back-cover command and every
\* showPage is issued with an empty state stack, the identity transform and
\* the default opacity.
C13_StateNeverLeaks ==
    /\ c.stack = <<>>
    /\ c.gs = DefaultGState
    /\ \A p \in 1..Len(AllCmds) :
          LET cmds == AllCmds[p]
          IN  /\ \A k \in 1..Len(cmds) :
                    /\ cmds[k].op \in StateOps =>
                          /\ cmds[k].depth = 1
                          /\ \E a \in Occurrences(cmds, "saveState") : a < k
                          /\ \E b \in Occurrences(cmds, "restoreState") : b > k
                    /\ cmds[k].op = "restoreState" => cmds[k].depth = 1
                    /\ cmds[k].op = "saveState" => cmds[k].depth = 0
                    /\ cmds[k].what \in PlainDraws
                       \/ cmds[k].op \in {"showPage", "rect", "drawImage", "line", "circle"} =>
                          /\ cmds[k].depth = 0
                          /\ cmds[k].gs = DefaultGState
              /\ Cardinality(Occurrences(cmds, "saveState"))
                    = Cardinality(Occurrences(cmds, "restoreState"))

C13_Witness ==
    /\ pc = "done"
    /\ Cardinality(InteriorPages) = 2
    /\ \E r \in Occurrences(c.pages[3], "rotate"), a \in Occurrences(c.pages[3], "setFillAlpha") :
          \E h \in 1..Len(c.pages[3]), n \in 1..Len(c.pages[3]) :
             /\ r < h
             /\ a < h
             /\ h < n
             /\ c.pages[3][h].what = "header"
             /\ c.pages[3][n].what = "page_number"
             /\ c.pages[3][h].gs = DefaultGState
             /\ c.pages[3][n].depth = 0

\* ---- pattern geometry ----
SpacingOf(o) ==
    IF o.type = "lined" THEN LinedSpacing(o)
    ELSE IF o.type = "dotted" THEN DotSpacing(o)
    ELSE GridSpacing(o)
Circles(cmds) == {k \in 1..Len(cmds) : cmds[k].op = "circle"}

\* C14: with right > left, top > bottom and a spacing > 0, every horizontal
\* line has bottom < y < top, every vertical line left < x < right and every
\* dot centre left < x < right and bottom < y < top; a spacing too large for
\* any element draws none and raises no error.
C14_PatternInsideRectangle ==
    LET o == options
        S == SpacingOf(o)
    IN  o.type \in {"lined", "dotted", "grid"} /\ ~Degenerate(o) /\ S > 0 =>
          /\ \A p \in 1..Len(AllCmds) :
                LET cmds == AllCmds[p]
                IN  /\ \A k \in HorizontalLines(cmds) :
                          /\ bottom(o) < cmds[k].args[2]
                          /\ cmds[k].args[2] < top(o)
                          /\ cmds[k].args[1] = left(o)
                          /\ cmds[k].args[3] = right(o)
                    /\ \A k \in VerticalLines(cmds) :
                          /\ left(o) < cmds[k].args[1]
                          /\ cmds[k].args[1] < right(o)
                          /\ cmds[k].args[2] = top(o)
                          /\ cmds[k].args[4] = bottom(o)
                    /\ Lines(cmds) = HorizontalLines(cmds) \cup VerticalLines(cmds)
                    /\ o.type = "lined" => VerticalLines(cmds) = {}
                    /\ \A k \in Circles(cmds) :
                          /\ left(o) < cmds[k].args[1]
                          /\ cmds[k].args[1] < right(o)
                          /\ bottom(o) < cmds[k].args[2]
                          /\ cmds[k].args[2] < top(o)
                    /\ S >= ContentHeight(o) => HorizontalLines(cmds) = {}
                    /\ o.type = "grid" /\ S >= ContentWidth(o) => VerticalLines(cmds) = {}
                    /\ S >= 2 * ContentHeight(o) \/ S >= 2 * ContentWidth(o) =>
                          Circles(cmds) = {}
          /\ raisedAt # "generate_interior_page"
          /\ pc = "for" /\ i > 1 => Len(c.pages) = i

C14_Witness ==
    /\ options.type = "dotted"
    /\ ~Degenerate(options)
    /\ DotSpacing(options) = inch
    /\ ContentHeight(options) = 2 * inch
    /\ InteriorPages # {}
    /\ \A p \in InteriorPages : Cardinality(Circles(c.pages[p])) >= 4

C14_EmptyPattern ==
    /\ options.type = "lined"
    /\ ~Degenerate(options)
    /\ LinedSpacing(options) > ContentHeight(options)
    /\ InteriorPages # {}
    /\ \A p \in InteriorPages : PatternCmds(c.pages[p]) = {}
    /\ pc = "done"
    /\ result # None

\* ---- termination ----
\* C15 as stated: for every record the form can hold and on_generate accepts,
\* whatever its margins and spacings, each pattern loop performs finitely many
\* iterations: every iteration moves the loop variable towards the bound the
\* loop tests it against (y down for lines, x and y up for columns and dots).
C15_LoopsTerminate ==
    [][FormCanHold(options) /\ FormAccepted(options) =>
          /\ pc = "lined" /\ pc' = "lined" => y' < y
          /\ pc = "grid_h" /\ pc' = "grid_h" => y' < y
          /\ pc = "grid_v" /\ pc' = "grid_v" => x' > x
          /\ pc = "dotted_dots" /\ pc' = "dotted_dots" => x' > x
          /\ pc = "dotted_dots" /\ pc' = "dotted_rows" => y' > y]_vars

====
